---- MODULE Spec2Model ----
(***************************************************************************)
(* The cre8-shotstack-worker polling loop (src/main.py) over the Firestore *)
(* job store (src/firebase_client.py) and the Shotstack render service.    *)
(*                                                                         *)
(* A document is a function from the keys it holds to their values, so a   *)
(* missing key is a key outside DOMAIN.  Every store call and every call   *)
(* of the render service is one atomic step of the worker that makes it;   *)
(* a handler (process_job, check_rendering_job) is the sequence of its     *)
(* calls, followed by the step of the for loop that took the job.          *)
(***************************************************************************)
EXTENDS Integers, Sequences, FiniteSets, Bags, TLC

VARIABLES
    store,      \* jobs collection: job id -> document
    events,     \* events subcollection: job id -> bag of the events' types
    service,    \* render service: render id (index) -> [payload, state]
    faults,     \* submissions and status checks the service has failed so far
    pc,         \* worker -> position in main()
    batch,      \* worker -> jobs of the current for loop, <<job_id, job>> pairs
    exc,        \* worker -> str(exc) of the failed call, "" when none
    render_id,  \* worker -> local render_id of the handler, NoRenderId when none
    data,       \* worker -> response of fetch_shotstack_status, <<>> when none
    ev0,        \* worker -> events of the current job when its handler started
    calls       \* worker -> the store and service calls of the running handler

vars == <<store, events, service, faults, pc, batch, exc, render_id, data, ev0,
          calls>>

(***************************************************************************)
(* Bounds                                                                  *)
(***************************************************************************)
MaxRenders == 2     \* renders the service accepts
MaxFaults == 2      \* failed submissions and failed status checks

Workers == {"w1", "w2"}
JobIds == <<"j1", "j2">>        \* the collection in stream() order
JobSet == {JobIds[i] : i \in 1..Len(JobIds)}

\* A collection with more pending jobs than one poll takes, in stream() order.
BacklogIds == <<"j1", "j2", "j3", "j4", "j5", "j6", "j7">>

\* The ids of the collection st, in stream() order.
IdsOf(st) == IF DOMAIN st = JobSet THEN JobIds ELSE BacklogIds

(***************************************************************************)
(* Python dict helpers                                                     *)
(***************************************************************************)
EmptyDict == <<>>

Get(d, k, default) == IF k \in DOMAIN d THEN d[k] ELSE default

Put(d, k, v) == [x \in (DOMAIN d) \cup {k} |-> IF x = k THEN v ELSE d[x]]

(***************************************************************************)
(* Constants of the program                                                *)
(***************************************************************************)
NoRenderId == 0     \* metadata.get("render_id") of a job that has none
NoUrl == 0          \* response.get("url") of a response without a URL
PendingLimit == 5
RenderingLimit == 10

VALID_EFFECTS ==
    {"none", "zoomIn", "zoomInSlow", "zoomInFast", "zoomOut", "zoomOutSlow",
     "zoomOutFast", "slideLeft", "slideLeftSlow", "slideLeftFast",
     "slideRight", "slideRightSlow", "slideRightFast", "slideUp",
     "slideUpSlow", "slideUpFast", "slideDown", "slideDownSlow",
     "slideDownFast"}

(***************************************************************************)
(* Template builders                                                       *)
(***************************************************************************)
build_demo_title_payload_Unchecked(job) ==
    LET asset_cfg == Get(job, "asset", EmptyDict)
    IN  [text   |-> Get(asset_cfg, "text", "CRE8 STUDIO TEST RENDER"),
         style  |-> Get(asset_cfg, "style", "minimal"),
         length |-> Get(asset_cfg, "length", 5),
         start  |-> Get(asset_cfg, "start", 0),
         effect |-> Get(asset_cfg, "effect", "zoomIn"),
         format |-> "mp4"]

build_demo_title_payload(job) ==
    LET asset_cfg == Get(job, "asset", EmptyDict)
        requested_effect == Get(asset_cfg, "effect", "zoomIn")
    IN  [text   |-> Get(asset_cfg, "text", "CRE8 STUDIO TEST RENDER"),
         style  |-> Get(asset_cfg, "style", "minimal"),
         length |-> Get(asset_cfg, "length", 5),
         start  |-> Get(asset_cfg, "start", 0),
         effect |-> IF requested_effect \in VALID_EFFECTS
                    THEN requested_effect ELSE "zoomIn",
         format |-> "mp4"]

build_shotstack_payload_Strict(job) ==
    LET template == Get(job, "template", "demo-title")
    IN  IF template = "demo-title"
        THEN build_demo_title_payload(job)
        ELSE [error |-> "unknown template"]

build_shotstack_payload(job) ==
    LET template == Get(job, "template", "demo-title")
    IN  IF template = "demo-title"
        THEN build_demo_title_payload(job)
        ELSE build_demo_title_payload(job)

(***************************************************************************)
(* Job store adapter (firebase_client.py)                                  *)
(***************************************************************************)
\* The documents in stream() order, as (doc.id, doc.to_dict()) pairs.
AllDocs(st) == [i \in 1..Len(IdsOf(st)) |-> <<IdsOf(st)[i], st[IdsOf(st)[i]]>>]

Take(seq, limit) == SubSeq(seq, 1, IF Len(seq) < limit THEN Len(seq) ELSE limit)

Qualifies(d) == Get(d, "status", "None") = "pending" /\ ~Get(d, "claimed", FALSE)

get_pending_jobs(st, limit) ==
    Take(SelectSeq(AllDocs(st), LAMBDA p : Qualifies(p[2])), limit)

\* Absent from firebase_client.py although main.py imports it: the status
\* filter of the store adapter's fetch, in the same order and capped alike.
get_rendering_jobs(st, limit) ==
    Take(SelectSeq(AllDocs(st),
                   LAMBDA p : Get(p[2], "status", "None") = "rendering"), limit)

\* DocumentReference.set(data, merge=True): the keys of data are written, the
\* other keys of the document stay, and a nested map is merged key by key.
MergeMap(old, upd) ==
    [k \in (DOMAIN old) \cup (DOMAIN upd) |->
        IF k \in DOMAIN upd THEN upd[k] ELSE old[k]]

MergeDoc(old, upd) ==
    [k \in (DOMAIN old) \cup (DOMAIN upd) |->
        IF k \notin DOMAIN upd THEN old[k]
        ELSE IF k = "metadata" /\ k \in DOMAIN old
             THEN MergeMap(old[k], upd[k])
             ELSE upd[k]]

update_job(st, job_id, fields) ==
    [st EXCEPT ![job_id] = MergeDoc(st[job_id], fields)]

\* events_ref.add(...): one more document in the job's events subcollection,
\* under an id of its own; the bag counts the documents of each type.
add_event(ev, job_id, type) ==
    [ev EXCEPT ![job_id] = ev[job_id] (+) SetToBag({type})]

(***************************************************************************)
(* The writes of process_job and check_rendering_job                       *)
(***************************************************************************)
ProcessingFields_NoClaim == [status |-> "processing"]

ProcessingFields == [status |-> "processing", claimed |-> TRUE]

PendingFields_NoIncrement(job, err) ==
    LET metadata == Get(job, "metadata", EmptyDict)
    IN  [status   |-> "pending",
         claimed  |-> FALSE,
         metadata |-> Put(Put(metadata, "error", err), "retry_count",
                          Get(metadata, "retry_count", 1))]

\* except branch of process_job: back to pending, error recorded for retry
PendingFields(job, err) ==
    LET metadata == Get(job, "metadata", EmptyDict)
    IN  [status   |-> "pending",
         claimed  |-> FALSE,
         metadata |-> Put(Put(metadata, "error", err), "retry_count",
                          Get(metadata, "retry_count", 0) + 1)]

\* success branch of process_job: save render_id, mark as rendering
RenderingFields(job, rid) ==
    [status   |-> "rendering",
     metadata |-> Put(Put(Get(job, "metadata", EmptyDict), "render_id", rid),
                      "status", "rendering")]

CompletedFields_NoOutput(metadata, output_url) ==
    [status   |-> "completed",
     metadata |-> Put(metadata, "status", "done")]

\* shot_status == "done"
CompletedFields(metadata, output_url) ==
    LET done == Put(metadata, "status", "done")
    IN  [status      |-> "completed",
         output_path |-> output_url,
         metadata    |-> IF output_url # NoUrl
                         THEN Put(done, "output_url", output_url) ELSE done]

\* shot_status == "failed"
ErrMsg(response) ==
    IF Get(response, "error", "") # "" THEN response.error
    ELSE "Shotstack render failed."

FailedFields_NoError(metadata, response) ==
    [status   |-> "failed",
     metadata |-> Put(metadata, "status", "failed")]

FailedFields(metadata, response) ==
    [status   |-> "failed",
     metadata |-> Put(Put(metadata, "status", "failed"), "error", ErrMsg(response))]

\* The event types the worker appends.
ProcessingEvent == "processing"
ErrorEvent == "error"
SubmittedEvent == "render_submitted"
StatusErrorEvent == "status_error"
DoneEvent == "render_done"
FailedEvent == "render_failed"

(***************************************************************************)
(* Render service (Shotstack), as main.py consumes it                      *)
(***************************************************************************)
SubmitErrors == {"500 Server Error"}

Url(rid) == rid     \* the output URL of render rid; NoUrl is no render's URL

\* What GET /render/{id} answers: the "response" object, its status already
\* lower case; url is NoUrl and error is "" where the service sends none.
Responses(rid) ==
    LET state == service[rid].state
    IN  CASE state = "done" ->
                {[status |-> "done", url |-> Url(rid), error |-> ""]}
          [] state = "done_nourl" ->
                {[status |-> "done", url |-> NoUrl, error |-> ""]}
          [] state = "failed" ->
                {[status |-> "failed", url |-> NoUrl, error |-> "render error"]}
          [] state = "failed_noerr" ->
                {[status |-> "failed", url |-> NoUrl, error |-> ""]}
          [] OTHER ->
                {[status |-> s, url |-> NoUrl, error |-> ""] :
                    s \in {"queued", "fetching", "rendering", "saving"}}

\* A render the service is working on reaches one of its final states.
RenderFinishes(rid) ==
    /\ rid \in 1..Len(service)
    /\ service[rid].state = "active"
    /\ \E final \in {"done", "done_nourl", "failed", "failed_noerr"} :
          service' = [service EXCEPT ![rid].state = final]
    /\ UNCHANGED <<store, events, faults, pc, batch, exc, render_id, data, ev0,
                   calls>>

(***************************************************************************)
(* Initial state                                                           *)
(***************************************************************************)
\* The job insert_job.py queues.
QueuedJob ==
    [template    |-> "demo-title",
     asset       |-> [text |-> "Cre8 Studio Test Render", style |-> "minimal",
                      effect |-> "zoomIn", start |-> 0, length |-> 5],
     status      |-> "pending",
     max_retries |-> 3,
     metadata    |-> [source |-> "firebase-test"]]

\* Jobs other producers queue: an effect outside the allowlist with an
\* explicit claimed flag, and an unknown template with no metadata.
BogusEffectJob ==
    [template |-> "demo-title",
     asset    |-> [text |-> "X", effect |-> "bogus"],
     status   |-> "pending",
     claimed  |-> FALSE,
     metadata |-> EmptyDict]

UnknownTemplateJob ==
    [template |-> "sports", asset |-> [effect |-> "slideUp"], status |-> "pending"]

\* A document marked rendering that holds no render_id.
OrphanRenderingJob ==
    [template |-> "demo-title", status |-> "rendering", claimed |-> TRUE,
     metadata |-> [source |-> "firebase-test"]]

\* A document marked rendering that holds no metadata at all.
BareRenderingJob == [status |-> "rendering", claimed |-> TRUE]

\* The queued job after as many failed submissions as its max_retries: each
\* one went through the except branch of process_job.
RetriedJob ==
    LET before == Put(QueuedJob, "metadata",
                      Put(QueuedJob.metadata, "retry_count",
                          QueuedJob.max_retries - 1))
    IN  MergeDoc(QueuedJob,
                 PendingFields(before, CHOOSE err \in SubmitErrors : TRUE))

InitialJobs ==
    {QueuedJob, BogusEffectJob, UnknownTemplateJob, OrphanRenderingJob,
     BareRenderingJob, RetriedJob}

\* created_at and updated_at as the producer sets them: the time the job was
\* queued.  Document ids are the store's own, so the order of the ids says
\* nothing about the order of creation.
Stamped(doc, now) == Put(Put(doc, "created_at", now), "updated_at", now)

CreationOrders == {<<1, 2>>, <<2, 1>>}

StampedStores(unstamped, orders) ==
    {[j \in JobSet |->
        Stamped(docs[j], order[CHOOSE i \in 1..Len(JobIds) : JobIds[i] = j])] :
        docs \in unstamped, order \in orders}

InitWith(running, stores) ==
    /\ store \in stores
    /\ events = [j \in DOMAIN store |-> EmptyBag]
    /\ service = <<>>
    /\ faults = 0
    /\ pc = [w \in Workers |-> IF w \in running THEN "poll_pending" ELSE "off"]
    /\ batch = [w \in Workers |-> <<>>]
    /\ exc = [w \in Workers |-> ""]
    /\ render_id = [w \in Workers |-> NoRenderId]
    /\ data = [w \in Workers |-> EmptyDict]
    /\ ev0 = [w \in Workers |-> EmptyBag]
    /\ calls = [w \in Workers |-> <<>>]

\* main() as one process
Init == InitWith({"w1"}, StampedStores([JobSet -> InitialJobs], CreationOrders))

\* several worker processes polling the same store
InitWorkers ==
    InitWith(Workers,
             StampedStores({[j \in JobSet |-> IF j = JobIds[1] THEN QueuedJob
                                              ELSE OrphanRenderingJob]},
                           {<<1, 2>>}))

\* main() as one process in front of a backlog: as many pending jobs as one
\* poll takes and one more, queued one after the other, and a document marked
\* rendering that holds no render_id.
BacklogStore ==
    [j \in {BacklogIds[i] : i \in 1..Len(BacklogIds)} |->
        LET i == CHOOSE i \in 1..Len(BacklogIds) : BacklogIds[i] = j
        IN  Stamped(IF i <= PendingLimit + 1 THEN QueuedJob ELSE OrphanRenderingJob,
                    i)]

InitBacklog == InitWith({"w1"}, {BacklogStore})

\* Failures the service may answer with: in front of the backlog, enough for
\* every job of a full batch to fail twice.
FaultLimit == IF DOMAIN store = JobSet THEN MaxFaults ELSE 2 * PendingLimit

(***************************************************************************)
(* main(): the polling loop of one worker                                  *)
(***************************************************************************)
JobId(w) == Head(batch[w])[1]
Job(w) == Head(batch[w])[2]

Goto(w, label) == pc' = [pc EXCEPT ![w] = label]

Called(w, op, arg) ==
    calls' = [calls EXCEPT ![w] = Append(@, [op |-> op, arg |-> arg])]

\* for job_id, job in jobs: the handler starts on the first job of jobs, with
\* fresh locals, or the loop is over and main() goes on.
Iterate(w, jobs, handler, after) ==
    /\ batch' = [batch EXCEPT ![w] = jobs]
    /\ Goto(w, IF jobs = <<>> THEN after ELSE handler)
    /\ ev0' = [ev0 EXCEPT ![w] = IF jobs = <<>> THEN EmptyBag ELSE events[jobs[1][1]]]
    /\ exc' = [exc EXCEPT ![w] = ""]
    /\ render_id' = [render_id EXCEPT ![w] = NoRenderId]
    /\ data' = [data EXCEPT ![w] = EmptyDict]
    /\ calls' = [calls EXCEPT ![w] = <<>>]

\* One update_job call of a handler.
Update(w, fields, next) ==
    /\ store' = update_job(store, JobId(w), fields)
    /\ Called(w, "update_job", fields)
    /\ Goto(w, next)
    /\ UNCHANGED <<events, service, faults, batch, exc, render_id, data, ev0>>

\* One add_event call of a handler.
AddEvent(w, type, next) ==
    /\ events' = add_event(events, JobId(w), type)
    /\ Called(w, "add_event", type)
    /\ Goto(w, next)
    /\ UNCHANGED <<store, service, faults, batch, exc, render_id, data, ev0>>

\* 1) Pick new pending jobs
PollPending(w) ==
    /\ pc[w] = "poll_pending"
    /\ Iterate(w, get_pending_jobs(store, PendingLimit), "claim", "poll_rendering")
    /\ UNCHANGED <<store, events, service, faults>>

(************************** process_job ***********************************)
MarkProcessing(w) ==
    /\ pc[w] = "claim"
    /\ Update(w, ProcessingFields, "ev_processing")

AddProcessingEvent(w) ==
    /\ pc[w] = "ev_processing"
    /\ AddEvent(w, ProcessingEvent, "submit")

\* submit_to_shotstack returns the id of a new render
SubmitReturns(w) ==
    /\ pc[w] = "submit"
    /\ Len(service) < MaxRenders
    /\ LET payload == build_shotstack_payload(Job(w))
       IN  /\ service' = Append(service, [payload |-> payload, state |-> "active"])
           /\ Called(w, "submit", payload)
    /\ render_id' = [render_id EXCEPT ![w] = Len(service) + 1]
    /\ Goto(w, "upd_rendering")
    /\ UNCHANGED <<store, events, faults, batch, exc, data, ev0>>

\* submit_to_shotstack raises
SubmitRaises(w) ==
    /\ pc[w] = "submit"
    /\ faults < FaultLimit
    /\ faults' = faults + 1
    /\ \E e \in SubmitErrors : exc' = [exc EXCEPT ![w] = e]
    /\ Called(w, "submit", build_shotstack_payload(Job(w)))
    /\ Goto(w, "upd_pending")
    /\ UNCHANGED <<store, events, service, batch, render_id, data, ev0>>

MarkPending(w) ==
    /\ pc[w] = "upd_pending"
    /\ Update(w, PendingFields(Job(w), exc[w]), "ev_error")

AddErrorEvent(w) ==
    /\ pc[w] = "ev_error"
    /\ AddEvent(w, ErrorEvent, "pj_return")

MarkRendering(w) ==
    /\ pc[w] = "upd_rendering"
    /\ Update(w, RenderingFields(Job(w), render_id[w]), "ev_submitted")

AddSubmittedEvent(w) ==
    /\ pc[w] = "ev_submitted"
    /\ AddEvent(w, SubmittedEvent, "pj_return")

\* process_job has returned: the for loop takes the next pending job
NextPending(w) ==
    /\ pc[w] = "pj_return"
    /\ Iterate(w, Tail(batch[w]), "claim", "poll_rendering")
    /\ UNCHANGED <<store, events, service, faults>>

\* 2) Check rendering jobs
PollRendering(w) ==
    /\ pc[w] = "poll_rendering"
    /\ Iterate(w, get_rendering_jobs(store, RenderingLimit), "check", "sleep")
    /\ UNCHANGED <<store, events, service, faults>>

(************************ check_rendering_job *****************************)
Metadata(w) == Get(Job(w), "metadata", EmptyDict)
StoredRenderId(w) == Get(Metadata(w), "render_id", NoRenderId)

SkipNoRenderId_MarksFailed(w) ==
    /\ pc[w] = "check"
    /\ StoredRenderId(w) = NoRenderId
    /\ Update(w, [status |-> "failed"], "cr_return")

\* if not render_id: return
SkipNoRenderId(w) ==
    /\ pc[w] = "check"
    /\ StoredRenderId(w) = NoRenderId
    /\ Goto(w, "cr_return")
    /\ UNCHANGED <<store, events, service, faults, batch, exc, render_id, data,
                   ev0, calls>>

AfterStatus_UnknownFails(shot_status) ==
    IF shot_status \in {"queued", "rendering"} THEN "cr_return"
    ELSE IF shot_status = "done" THEN "upd_completed"
    ELSE "upd_failed"

\* Where check_rendering_job goes on a status.
AfterStatus(shot_status) ==
    IF shot_status \in {"queued", "rendering"} THEN "cr_return"
    ELSE IF shot_status = "done" THEN "upd_completed"
    ELSE IF shot_status = "failed" THEN "upd_failed"
    ELSE "cr_return"

\* fetch_shotstack_status returns
StatusReturns(w) ==
    /\ pc[w] = "check"
    /\ StoredRenderId(w) # NoRenderId
    /\ \E response \in Responses(StoredRenderId(w)) :
          /\ data' = [data EXCEPT ![w] = response]
          /\ Goto(w, AfterStatus(response.status))
    /\ render_id' = [render_id EXCEPT ![w] = StoredRenderId(w)]
    /\ Called(w, "status", StoredRenderId(w))
    /\ UNCHANGED <<store, events, service, faults, batch, exc, ev0>>

AfterStatusError_MarksFailed == "upd_failed"

\* except branch around fetch_shotstack_status: a status_error event, return
AfterStatusError == "ev_status_error"

\* fetch_shotstack_status raises
StatusRaises(w) ==
    /\ pc[w] = "check"
    /\ StoredRenderId(w) # NoRenderId
    /\ faults < FaultLimit
    /\ faults' = faults + 1
    /\ exc' = [exc EXCEPT ![w] = "status check failed"]
    /\ render_id' = [render_id EXCEPT ![w] = StoredRenderId(w)]
    /\ Called(w, "status", StoredRenderId(w))
    /\ Goto(w, AfterStatusError)
    /\ UNCHANGED <<store, events, service, batch, data, ev0>>

AddStatusErrorEvent(w) ==
    /\ pc[w] = "ev_status_error"
    /\ AddEvent(w, StatusErrorEvent, "cr_return")

MarkCompleted(w) ==
    /\ pc[w] = "upd_completed"
    /\ Update(w, CompletedFields(Metadata(w), data[w].url), "ev_done")

AddDoneEvent(w) ==
    /\ pc[w] = "ev_done"
    /\ AddEvent(w, DoneEvent, "cr_return")

MarkFailed(w) ==
    /\ pc[w] = "upd_failed"
    /\ Update(w, FailedFields(Metadata(w), data[w]), "ev_failed")

AddFailedEvent(w) ==
    /\ pc[w] = "ev_failed"
    /\ AddEvent(w, FailedEvent, "cr_return")

\* check_rendering_job has returned: the for loop takes the next rendering job
NextRendering(w) ==
    /\ pc[w] = "cr_return"
    /\ Iterate(w, Tail(batch[w]), "check", "sleep")
    /\ UNCHANGED <<store, events, service, faults>>

\* time.sleep(15), then the next cycle
Sleep(w) ==
    /\ pc[w] = "sleep"
    /\ Goto(w, "poll_pending")
    /\ UNCHANGED <<store, events, service, faults, batch, exc, render_id, data,
                   ev0, calls>>

\* update_job or add_event raises (the store is unavailable, the document is
\* gone): nothing in process_job, check_rendering_job or main() catches it, so
\* it leaves the while loop and the process ends.
StoreCalls ==
    {"claim", "ev_processing", "upd_pending", "ev_error", "upd_rendering",
     "ev_submitted", "ev_status_error", "upd_completed", "ev_done",
     "upd_failed", "ev_failed"}

StoreRaises(w) ==
    /\ pc[w] \in StoreCalls
    /\ Goto(w, "crashed")
    /\ UNCHANGED <<store, events, service, faults, batch, exc, render_id, data,
                   ev0, calls>>

Next ==
    \/ \E w \in Workers :
          \/ PollPending(w)
          \/ MarkProcessing(w)
          \/ AddProcessingEvent(w)
          \/ SubmitReturns(w)
          \/ SubmitRaises(w)
          \/ MarkPending(w)
          \/ AddErrorEvent(w)
          \/ MarkRendering(w)
          \/ AddSubmittedEvent(w)
          \/ NextPending(w)
          \/ PollRendering(w)
          \/ SkipNoRenderId(w)
          \/ StatusReturns(w)
          \/ StatusRaises(w)
          \/ AddStatusErrorEvent(w)
          \/ MarkCompleted(w)
          \/ AddDoneEvent(w)
          \/ MarkFailed(w)
          \/ AddFailedEvent(w)
          \/ NextRendering(w)
          \/ Sleep(w)
          \/ StoreRaises(w)
    \/ \E rid \in 1..MaxRenders : RenderFinishes(rid)

Spec == Init /\ [][Next]_vars

SpecWorkers == InitWorkers /\ [][Next]_vars

SpecBacklog == InitBacklog /\ [][Next]_vars

(***************************************************************************)
(* Properties                                                              *)
(***************************************************************************)
Range(seq) == {seq[i] : i \in DOMAIN seq}

Claimed(d) == Get(d, "claimed", FALSE)
StatusOf(d) == Get(d, "status", "None")
MetadataOf(d) == Get(d, "metadata", EmptyDict)
RenderIdOf(d) == Get(MetadataOf(d), "render_id", NoRenderId)
RetryCountOf(d) == Get(MetadataOf(d), "retry_count", 0)

\* The handler of worker w made a call op before its i-th call that fits P.
CalledBefore(w, i, op, P(_)) ==
    \E k \in 1..(i - 1) : calls[w][k].op = op /\ P(calls[w][k].arg)

WritesClaim(fields) == Claimed(fields) = TRUE /\ StatusOf(fields) = "processing"

\* C1: in process_job the update_job call that writes claimed=true and
\* status=processing comes before the call of submit_to_shotstack, and the
\* job is stored as claimed and processing when the submission is made.
ClaimBeforeSubmit ==
    \A w \in Workers :
        /\ \A i \in DOMAIN calls[w] :
              calls[w][i].op = "submit" =>
                  CalledBefore(w, i, "update_job", WritesClaim)
        /\ pc[w] = "submit" => WritesClaim(store[JobId(w)])

\* C1 witness: a submission has been made for a job taken by get_pending_jobs.
SubmitCalled ==
    \E w \in Workers : \E i \in DOMAIN calls[w] :
        calls[w][i].op = "submit" /\ pc[w] = "upd_rendering"

\* C2: a render_id a job holds is never replaced by another one, whatever
\* the workers polling the store do.
RenderIdWrittenOnce ==
    [][\A j \in JobSet :
          RenderIdOf(store[j]) # NoRenderId =>
              RenderIdOf(store'[j]) = RenderIdOf(store[j])]_vars

\* C3: when submit_to_shotstack raised, process_job returns with the job
\* stored as pending and unclaimed, metadata.error the failure message,
\* metadata.retry_count one more than before the call (0 when it was
\* missing) and one more error event than before the call; before the call
\* the job passed to process_job is the stored document.
SubmitFailureBackToPending ==
    \A w \in Workers :
        /\ pc[w] = "claim" => store[JobId(w)] = Job(w)
        /\ pc[w] = "pj_return" /\ exc[w] # "" =>
              LET d == store[JobId(w)]
              IN  /\ StatusOf(d) = "pending"
                  /\ Claimed(d) = FALSE
                  /\ Get(MetadataOf(d), "error", "") = exc[w]
                  /\ "retry_count" \in DOMAIN MetadataOf(d)
                  /\ RetryCountOf(d) = RetryCountOf(Job(w)) + 1
                  /\ events[JobId(w)] =
                        ev0[w] (+) SetToBag({ProcessingEvent, "error"})

\* C3 witness: process_job returns after a failed submission of a job that
\* had failed before, so that a stored retry_count was incremented.
SecondSubmitFailureReturned ==
    \E w \in Workers :
        /\ pc[w] = "pj_return" /\ exc[w] # ""
        /\ RetryCountOf(Job(w)) = 1
        /\ RetryCountOf(store[JobId(w)]) = 2

\* C4: however often check_rendering_job sees a render done, the job's
\* events hold one completion event.
CompletionIdempotent ==
    \A j \in JobSet : CopiesIn(DoneEvent, events[j]) <= 1

\* check_rendering_job has returned from a response "done" that carries an
\* output URL: the job is completed, the URL is its output_path and its
\* metadata.output_url, and one event of the given type was added.
DoneCompletesWith(type) ==
    \A w \in Workers :
        /\ pc[w] = "cr_return"
        /\ Get(data[w], "status", "") = "done"
        /\ Get(data[w], "url", NoUrl) # NoUrl
        => LET d == store[JobId(w)]
           IN  /\ StatusOf(Job(w)) = "rendering"
               /\ StatusOf(d) = "completed"
               /\ Get(d, "output_path", NoUrl) = data[w].url
               /\ Get(MetadataOf(d), "output_url", NoUrl) = data[w].url
               /\ events[JobId(w)] = ev0[w] (+) SetToBag({type})

\* C5 as claimed: on done with output URL u the job is completed with u
\* stored and exactly one event, of type completed, is appended.
DoneAppendsCompletedEvent == DoneCompletesWith("completed")

\* C5 as amended: on done with output URL u the job is completed with u
\* stored and exactly one event, of type render_done, is appended.
DoneAppendsRenderDoneEvent == DoneCompletesWith("render_done")

\* C5 witness: check_rendering_job returns from a done response with a URL.
DoneWithUrlReturned ==
    \E w \in Workers :
        /\ pc[w] = "cr_return"
        /\ Get(data[w], "status", "") = "done"
        /\ Get(data[w], "url", NoUrl) = Url(RenderIdOf(Job(w)))
        /\ RenderIdOf(Job(w)) # NoRenderId

InProgressStatuses == {"queued", "fetching", "rendering"}

\* C6: from a status queued, fetching or rendering check_rendering_job returns
\* without a store call: the document is the one the worker fetched, still
\* rendering, the events are those of before, and get_rendering_jobs
\* returns the job again.
InProgressLeavesStoreAlone ==
    \A w \in Workers :
        /\ pc[w] = "check" => store[JobId(w)] = Job(w)
        /\ pc[w] = "cr_return" /\ Get(data[w], "status", "") \in InProgressStatuses =>
              /\ store[JobId(w)] = Job(w)
              /\ StatusOf(store[JobId(w)]) = "rendering"
              /\ events[JobId(w)] = ev0[w]
              /\ \A i \in DOMAIN calls[w] :
                    calls[w][i].op \notin {"update_job", "add_event"}
              /\ \E p \in Range(get_rendering_jobs(store, RenderingLimit)) :
                    p[1] = JobId(w)

\* C6 witness: check_rendering_job returns from a status fetching.
FetchingReturned ==
    \E w \in Workers : pc[w] = "cr_return" /\ Get(data[w], "status", "") = "fetching"

RequestedEffect(job) == Get(Get(job, "asset", EmptyDict), "effect", "absent")

\* C7: process_job returns from a submission that gave render id r.  If the
\* job was pending, unclaimed, of template demo-title and asked for an effect
\* outside VALID_EFFECTS, it is stored as rendering and claimed with
\* metadata.render_id = r and the payload submitted has effect zoomIn; if it
\* asked for an effect of VALID_EFFECTS the payload has that effect.
InvalidEffectFallsBack ==
    \A w \in Workers :
        pc[w] = "pj_return" /\ exc[w] = "" =>
            LET job == Job(w)
                d == store[JobId(w)]
                sent == service[render_id[w]].payload
            IN  /\ ( /\ StatusOf(job) = "pending"
                     /\ Claimed(job) = FALSE
                     /\ Get(job, "template", "") = "demo-title"
                     /\ RequestedEffect(job) \notin VALID_EFFECTS )
                   => /\ StatusOf(d) = "rendering"
                      /\ Claimed(d) = TRUE
                      /\ RenderIdOf(d) = render_id[w]
                      /\ render_id[w] # NoRenderId
                      /\ sent.effect = "zoomIn"
                /\ RequestedEffect(job) \in VALID_EFFECTS
                   => sent.effect = RequestedEffect(job)

\* C7 witness: process_job returns from the submission of the job that asks
\* for the effect bogus.
BogusEffectJobSubmitted ==
    \E w \in Workers :
        /\ pc[w] = "pj_return" /\ exc[w] = ""
        /\ Get(Job(w), "asset", EmptyDict) = BogusEffectJob.asset

\* C8: a store call that fails while a job is handled does not end the
\* worker loop.
WorkerSurvivesStoreFailure ==
    \A w \in Workers : pc[w] # "crashed"

RenderStates == {"queued", "fetching", "rendering", "done", "failed"}

\* C9: each failure path leaves an event on the failing job: a failed
\* submission, a failed status check, a failed render, a rendering job
\* without render_id, a render status that is none of the service's.
FailurePathsLeaveEvent ==
    \A w \in Workers :
        /\ pc[w] = "pj_return" /\ exc[w] # "" => events[JobId(w)] # ev0[w]
        /\ ( /\ pc[w] = "cr_return"
             /\ \/ RenderIdOf(Job(w)) = NoRenderId
                \/ exc[w] # ""
                \/ Get(data[w], "status", "queued") = "failed"
                \/ Get(data[w], "status", "queued") \notin RenderStates )
           => events[JobId(w)] # ev0[w]

\* C10: the document of a job whose status is completed or failed is not
\* written again.
TerminalJobsUntouched ==
    [][\A j \in JobSet :
          StatusOf(store[j]) \in {"completed", "failed"} => store'[j] = store[j]]_vars

ProcessJobSteps ==
    {"claim", "ev_processing", "submit", "upd_pending", "ev_error",
     "upd_rendering", "ev_submitted", "pj_return"}

\* process_job of worker w has called submit_to_shotstack for its job.
HasSubmitted(w) ==
    /\ pc[w] \in ProcessJobSteps
    /\ \E i \in DOMAIN calls[w] : calls[w][i].op = "submit"

\* C11: no two workers submit the same job from the same fetched document,
\* that is, for the same time the job was pending.
NoDuplicateProcessing ==
    \A w1, w2 \in Workers :
        (w1 # w2 /\ HasSubmitted(w1) /\ HasSubmitted(w2) /\ JobId(w1) = JobId(w2))
            => Job(w1) # Job(w2)

CreatedAt(p) == Get(p[2], "created_at", 0)

\* C12: the jobs get_pending_jobs returned and the worker still has to
\* process are pending and unclaimed, at most limit, and in the order of
\* their created_at, oldest first.
PendingBatchOldestFirst ==
    \A w \in Workers :
        pc[w] \in ProcessJobSteps =>
            /\ Len(batch[w]) <= PendingLimit
            /\ \A i \in DOMAIN batch[w] : Qualifies(batch[w][i][2])
            /\ \A i, k \in DOMAIN batch[w] :
                  i < k => CreatedAt(batch[w][i]) <= CreatedAt(batch[w][k])

\* C13: an add_event call that fails does not end the worker: the handler
\* goes on after it.
AddEventFailureContained ==
    [][\A w \in Workers :
          pc[w] \in {"ev_processing", "ev_error", "ev_submitted",
                     "ev_status_error", "ev_done", "ev_failed"}
              => pc'[w] # "crashed"]_vars

\* C14: for a job whose template is not demo-title, the payload process_job
\* submits is the one build_demo_title_payload returns for that job.
UnknownTemplateUsesDefault ==
    \A w \in Workers :
        pc[w] \in ProcessJobSteps /\ Get(Job(w), "template", "demo-title") # "demo-title" =>
            \A i \in DOMAIN calls[w] :
                calls[w][i].op = "submit" =>
                    calls[w][i].arg = build_demo_title_payload(Job(w))

\* C14 witness: the job of template sports has been submitted.
UnknownTemplateSubmitted ==
    \E w \in Workers :
        /\ HasSubmitted(w)
        /\ Get(Job(w), "template", "demo-title") = "sports"
        /\ pc[w] = "upd_rendering"

\* check_rendering_job has returned from a response of status failed: the job
\* is failed, its metadata holds the error message (the response's, or the
\* default one) and one render_failed event was added.
FailedResponseFails(w) ==
    LET d == store[JobId(w)]
    IN  /\ StatusOf(d) = "failed"
        /\ Get(MetadataOf(d), "status", "") = "failed"
        /\ Get(MetadataOf(d), "error", "") =
              (IF data[w].error # "" THEN data[w].error
               ELSE "Shotstack render failed.")
        /\ events[JobId(w)] = ev0[w] (+) SetToBag({"render_failed"})

Returned(w, statuses) ==
    /\ pc[w] = "cr_return"
    /\ data[w] # EmptyDict
    /\ data[w].status \in statuses

OtherStates == {"saving"}   \* states the worker's branches do not name

\* C15 as claimed: after a response failed, or one of an unrecognized state
\* without URL, check_rendering_job leaves the job failed, with the error
\* message and a failed event.
FailedOrUnrecognizedFails ==
    \A w \in Workers :
        \/ Returned(w, {"failed"})
        \/ Returned(w, OtherStates) /\ data[w].url = NoUrl
        => FailedResponseFails(w)

\* C15 as amended: after a response failed the job is failed, with the error
\* message and a render_failed event; after a response of an unrecognized
\* state the document and the events are as before and the job is rendering.
OnlyFailedResponseFails ==
    \A w \in Workers :
        /\ Returned(w, {"failed"}) => FailedResponseFails(w)
        /\ Returned(w, OtherStates) =>
              /\ store[JobId(w)] = Job(w)
              /\ StatusOf(store[JobId(w)]) = "rendering"
              /\ events[JobId(w)] = ev0[w]

\* C15 witness: a failed response without error text has been handled.
FailedWithoutErrorReturned ==
    \E w \in Workers : Returned(w, {"failed"}) /\ data[w].error = ""

\* C16: a completed job holds a non-empty output URL, as output_path and as
\* metadata.output_url.
CompletedHasOutputUrl ==
    \A j \in JobSet :
        StatusOf(store[j]) = "completed" =>
            /\ Get(store[j], "output_path", NoUrl) # NoUrl
            /\ Get(MetadataOf(store[j]), "output_url", NoUrl) # NoUrl

\* C17: when fetch_shotstack_status raises, check_rendering_job returns with
\* the job document as it was, status rendering and the same render_id, so
\* the job is still one the next cycle's poll of rendering jobs checks.
StatusErrorLeavesJobRendering ==
    \A w \in Workers :
        pc[w] = "cr_return" /\ exc[w] # "" =>
            LET d == store[JobId(w)]
            IN  /\ d = Job(w)
                /\ StatusOf(d) = "rendering"
                /\ RenderIdOf(d) = render_id[w]
                /\ RenderIdOf(d) # NoRenderId
                /\ \A i \in DOMAIN calls[w] : calls[w][i].op # "update_job"

\* C17 witness: check_rendering_job returned after a status check that raised.
StatusErrorReturned ==
    \E w \in Workers :
        /\ pc[w] = "cr_return" /\ exc[w] # ""
        /\ StatusErrorEvent \in DOMAIN events[JobId(w)]

\* C18: for a rendering job without a render_id, check_rendering_job returns
\* having made no service call and no store call; the worker goes on.
NoRenderIdSkipped ==
    \A w \in Workers :
        pc[w] = "cr_return" /\ RenderIdOf(Job(w)) = NoRenderId =>
            /\ calls[w] = <<>>
            /\ store[JobId(w)] = Job(w)
            /\ events[JobId(w)] = ev0[w]
            /\ exc[w] = ""

\* C18 witness: a rendering job without metadata has been skipped.
NoMetadataJobSkipped ==
    \E w \in Workers :
        /\ pc[w] = "cr_return"
        /\ StatusOf(Job(w)) = "rendering"
        /\ "metadata" \notin DOMAIN Job(w)

\* C19: a job is returned to pending at most max_retries times: no pending
\* job has a retry_count above its max_retries.
RetryBounded ==
    \A j \in JobSet :
        LET d == store[j]
        IN  StatusOf(d) = "pending" /\ "max_retries" \in DOMAIN d =>
                RetryCountOf(d) <= d.max_retries

\* C20: once the stored status of a job is rendering, no step sets it back to
\* processing or pending; it stays rendering or becomes completed or failed.
RenderingForwardOnly ==
    [][\A j \in JobSet :
          StatusOf(store[j]) = "rendering" =>
              StatusOf(store'[j]) \in {"rendering", "completed", "failed"}]_vars

UpdatedAt(d) == Get(d, "updated_at", 0)

\* C21: every step that writes a job document gives it a new updated_at and
\* leaves its created_at as it was.
WritesRefreshUpdatedAt ==
    [][\A j \in JobSet :
          store'[j] # store[j] =>
              /\ UpdatedAt(store'[j]) # UpdatedAt(store[j])
              /\ Get(store'[j], "created_at", 0) = Get(store[j], "created_at", 0)]_vars

\* Times job j has been handed to process_job: it adds one processing event.
Handed(j) == CopiesIn(ProcessingEvent, events[j])

InBatch(jobs, j) == \E i \in DOMAIN jobs : jobs[i][1] = j

\* C22: a poll does not leave a pending, unclaimed job that was never handed
\* to process_job out of its batch while the batch holds a job that was
\* already handed to process_job twice and came back to pending each time:
\* jobs that keep coming back do not keep the batch to themselves.
ReturnedJobsDoNotOccupyBatch ==
    [][\A w \in Workers :
          pc[w] = "poll_pending" /\ pc'[w] = "claim" =>
              \A j \in DOMAIN store :
                  (Qualifies(store[j]) /\ Handed(j) = 0 /\ ~InBatch(batch'[w], j))
                      => \A k \in DOMAIN store :
                            InBatch(batch'[w], k) => Handed(k) <= 1]_vars

====
